---- MODULE Spec2Model ----
(***************************************************************************)
(* A model of the tax form renderer (src/form_render.py) and of the        *)
(* annotation data classes it reads (src/tax_annotation_system.py).        *)
(*                                                                         *)
(* Python strings are sequences of one-character strings, so that          *)
(* splitting, subscript parsing, stripping and truncation are computed     *)
(* character by character.  JSON values are tagged records.  A call that   *)
(* raises is a result whose field exc names the exception type.            *)
(***************************************************************************)
EXTENDS Integers, Sequences, FiniteSets, TLC

VARIABLES
    data,        \* self.data: the data document
    annotation,  \* self.annotation["fields"]: the sequence of field dicts
    show_debug,  \* the show_debug_boxes argument of render_to_pdf
    errors,      \* self.errors
    warnings,    \* self.warnings
    canvas,      \* the calls issued to the drawing surface by the current call
    pc,          \* position of render_to_pdf: idle, page, done, raised
    pages,       \* render_to_pdf's local dict: page number -> field indices
    page_order,  \* sorted(pages.keys())
    page_idx,    \* index in page_order of the page being rendered
    field_idx,   \* index in the page's field list of the next field
    reports,     \* the render summaries printed so far, one per finished call
    raised,      \* the exception that left render_to_pdf, or "none"
    calls,       \* number of render_to_pdf calls started on this renderer
    call,        \* arguments of the pure function under check
    ret          \* its result

vars == <<data, annotation, show_debug, errors, warnings, canvas, pc, pages,
          page_order, page_idx, field_idx, reports, raised, calls, call, ret>>

renderVars == <<annotation, show_debug, errors, warnings, canvas, pc, pages,
                page_order, page_idx, field_idx, reports, raised, calls>>

(***************************************************************************)
(* Strings                                                                 *)
(***************************************************************************)
MinOf(S) == CHOOSE m \in S : \A k \in S : m <= k

\* str.index / the `in` test: the first position of ch in s, 0 when absent.
IndexOf(s, ch) ==
    LET I == {i \in 1..Len(s) : s[i] = ch}
    IN  IF I = {} THEN 0 ELSE MinOf(I)

\* s[a:b] of Python with 0-based, end-exclusive, non-negative bounds.
Slice(s, a, b) ==
    LET hi == IF b > Len(s) THEN Len(s) ELSE b
    IN  IF a >= hi THEN <<>> ELSE SubSeq(s, a + 1, hi)

RECURSIVE Split(_, _)
\* str.split(sep) for a one-character separator.
Split(s, sep) ==
    LET i == IndexOf(s, sep)
    IN  IF i = 0 THEN <<s>>
        ELSE <<Slice(s, 0, i - 1)>> \o Split(Slice(s, i, Len(s)), sep)

RECURSIVE Concat(_)
Concat(ss) == IF ss = <<>> THEN <<>> ELSE Head(ss) \o Concat(Tail(ss))

RECURSIVE Join(_, _)
\* sep.join(ss)
Join(ss, sep) ==
    IF ss = <<>> THEN <<>>
    ELSE IF Len(ss) = 1 THEN ss[1]
    ELSE ss[1] \o sep \o Join(Tail(ss), sep)

Digits == <<"0", "1", "2", "3", "4", "5", "6", "7", "8", "9">>
IsDigit(ch) == \E i \in 1..Len(Digits) : Digits[i] = ch
DigitVal(ch) == (CHOOSE i \in 1..Len(Digits) : Digits[i] = ch) - 1

RECURSIVE DigitsVal(_)
DigitsVal(s) ==
    IF s = <<>> THEN 0 ELSE 10 * DigitsVal(Slice(s, 0, Len(s) - 1)) + DigitVal(s[Len(s)])

RECURSIVE NatStr(_)
NatStr(n) == IF n < 10 THEN <<Digits[n + 1]>> ELSE NatStr(n \div 10) \o <<Digits[(n % 10) + 1]>>

\* str(n) of an int
IntStr(n) == IF n < 0 THEN <<"-">> \o NatStr(-n) ELSE NatStr(n)

IsSpace(ch) == ch = " "

RECURSIVE LStrip(_)
LStrip(s) == IF s # <<>> /\ IsSpace(Head(s)) THEN LStrip(Tail(s)) ELSE s

RECURSIVE RStrip(_)
RStrip(s) == IF s # <<>> /\ IsSpace(s[Len(s)]) THEN RStrip(Slice(s, 0, Len(s) - 1)) ELSE s

\* str.strip()
Strip(s) == RStrip(LStrip(s))

\* int(s) of a string: surrounding blanks, one optional sign, then digits;
\* anything else raises ValueError.
ParseInt(s) ==
    LET t    == Strip(s)
        neg  == t # <<>> /\ t[1] = "-"
        sign == t # <<>> /\ t[1] \in {"-", "+"}
        body == IF sign THEN Tail(t) ELSE t
    IN  IF body # <<>> /\ \A i \in 1..Len(body) : IsDigit(body[i])
        THEN [exc |-> "none", n |-> IF neg THEN -DigitsVal(body) ELSE DigitsVal(body)]
        ELSE [exc |-> "ValueError", n |-> 0]

(***************************************************************************)
(* JSON values as json.load returns them                                   *)
(***************************************************************************)
None == [t |-> "null"]
PyBool(b) == [t |-> "bool", b |-> b]
PyInt(n) == [t |-> "int", n |-> n]
PyStr(s) == [t |-> "str", s |-> s]
\* A float, in hundredths
PyFloat(c) == [t |-> "float", c |-> c]
PyList(items) == [t |-> "list", items |-> items]
PyDict(m) == [t |-> "dict", m |-> m]

Return(v) == [exc |-> "none", value |-> v]
Raise(e) == [exc |-> e, value |-> None]

\* value.get(key, dflt): only a dict has .get
DictGet(value, key, dflt) ==
    IF value.t = "dict"
    THEN Return(IF key \in DOMAIN value.m THEN value.m[key] ELSE dflt)
    ELSE Raise("AttributeError")

\* container[index] with an int index, negative indices counting from the end
Subscript(container, index) ==
    CASE container.t = "list" ->
            LET n == Len(container.items)
            IN  IF index >= 0 /\ index < n THEN Return(container.items[index + 1])
                ELSE IF index < 0 /\ -index <= n THEN Return(container.items[n + index + 1])
                ELSE Raise("IndexError")
      [] container.t = "str" ->
            LET n == Len(container.s)
            IN  IF index >= 0 /\ index < n THEN Return(PyStr(<<container.s[index + 1]>>))
                ELSE IF index < 0 /\ -index <= n THEN Return(PyStr(<<container.s[n + index + 1]>>))
                ELSE Raise("IndexError")
      [] container.t = "dict" -> Raise("KeyError")
      [] OTHER -> Raise("TypeError")

(***************************************************************************)
(* TaxFormRenderer.resolve_value_reference                                 *)
(***************************************************************************)
\* One iteration of the loop over keys (lines 63-69): the new value.
ResolveKey(value, key) ==
    LET lb == IndexOf(key, "[")
        rb == IndexOf(key, "]")
    IN  IF lb # 0 /\ rb # 0
        THEN LET base_key == Slice(key, 0, lb - 1)
                 index    == ParseInt(Slice(key, lb, rb - 1))
                 got      == DictGet(value, base_key, PyList(<<>>))
             IN  IF index.exc # "none" THEN Raise(index.exc)
                 ELSE IF got.exc # "none" THEN got
                 ELSE Subscript(got.value, index.n)
        ELSE DictGet(value, key, None)

ResolveCaught == {"KeyError", "IndexError", "TypeError", "AttributeError"}

RECURSIVE ResolveLoop(_, _, _)
\* The try block (lines 61-76): keys still to visit, the current value.
ResolveLoop(keys, value, default) ==
    IF keys = <<>> THEN Return(value)
    ELSE LET step == ResolveKey(value, Head(keys))
         IN  IF step.exc \in ResolveCaught THEN Return(default)
             ELSE IF step.exc # "none" THEN step
             ELSE IF step.value = None THEN Return(default)
             ELSE ResolveLoop(Tail(keys), step.value, default)

resolve_value_reference(doc, path, default) ==
    IF path = <<>> THEN Return(default)
    ELSE ResolveLoop(Split(path, "."), doc, default)

(***************************************************************************)
(* str(), float() and re.match of Python on the values above               *)
(***************************************************************************)
sNone == <<"N", "o", "n", "e">>
sTrue == <<"T", "r", "u", "e">>
sFalse == <<"F", "a", "l", "s", "e">>

\* repr of a float of c hundredths: the shortest decimal, one digit at least
\* after the point
FloatStr(c) ==
    (IF c < 0 THEN <<"-">> ELSE <<>>)
    \o NatStr((IF c < 0 THEN -c ELSE c) \div 100) \o <<".">>
    \o NatStr(((IF c < 0 THEN -c ELSE c) % 100) \div 10)
    \o (IF c % 10 = 0 THEN <<>> ELSE NatStr((IF c < 0 THEN -c ELSE c) % 10))

RECURSIVE Repr(_), ReprItems(_), ReprEntries(_, _)
\* repr(value): a str is quoted, everything else prints as str() does.
Repr(value) ==
    CASE value.t = "null" -> sNone
      [] value.t = "bool" -> IF value.b THEN sTrue ELSE sFalse
      [] value.t = "int"  -> IntStr(value.n)
      [] value.t = "float" -> FloatStr(value.c)
      [] value.t = "str"  -> <<"'">> \o value.s \o <<"'">>
      [] value.t = "list" -> <<"[">> \o ReprItems(value.items) \o <<"]">>
      [] value.t = "dict" -> <<"{">> \o ReprEntries(value.m, DOMAIN value.m) \o <<"}">>

ReprItems(items) ==
    IF items = <<>> THEN <<>>
    ELSE IF Len(items) = 1 THEN Repr(items[1])
    ELSE Repr(items[1]) \o <<",", " ">> \o ReprItems(Tail(items))

\* The entries of a dict print in insertion order, which the model does not
\* keep: the keys are taken in a fixed arbitrary order.
ReprEntries(m, keys) ==
    IF keys = {} THEN <<>>
    ELSE LET k    == CHOOSE x \in keys : TRUE
             rest == keys \ {k}
             one  == <<"'">> \o k \o <<"'", ":", " ">> \o Repr(m[k])
         IN  IF rest = {} THEN one ELSE one \o <<",", " ">> \o ReprEntries(m, rest)

\* str(value)
StrOf(value) == IF value.t = "str" THEN value.s ELSE Repr(value)

\* float(s) of a string, in hundredths: blanks stripped, an optional sign,
\* digits, and at most two decimals after a point.  Anything else raises
\* ValueError.
ParseFloat(s) ==
    LET t     == Strip(s)
        neg   == t # <<>> /\ t[1] = "-"
        sign  == t # <<>> /\ t[1] \in {"-", "+"}
        body  == IF sign THEN Tail(t) ELSE t
        dot   == IndexOf(body, ".")
        whole == IF dot = 0 THEN body ELSE Slice(body, 0, dot - 1)
        frac  == IF dot = 0 THEN <<>> ELSE Slice(body, dot, Len(body))
        allDigits(x) == \A i \in 1..Len(x) : IsDigit(x[i])
        cents == IF Len(frac) = 0 THEN 0
                 ELSE IF Len(frac) = 1 THEN 10 * DigitsVal(frac)
                 ELSE DigitsVal(frac)
        mag   == 100 * DigitsVal(whole) + cents
    IN  IF allDigits(whole) /\ allDigits(frac) /\ Len(whole) + Len(frac) > 0
           /\ Len(frac) <= 2
        THEN [exc |-> "none", c |-> IF neg THEN -mag ELSE mag]
        ELSE [exc |-> "ValueError", c |-> 0]

\* float(value), in hundredths
FloatOf(value) ==
    CASE value.t = "int"  -> [exc |-> "none", c |-> 100 * value.n]
      [] value.t = "float" -> [exc |-> "none", c |-> value.c]
      [] value.t = "bool" -> [exc |-> "none", c |-> IF value.b THEN 100 ELSE 0]
      [] value.t = "str"  -> ParseFloat(value.s)
      [] OTHER -> [exc |-> "TypeError", c |-> 0]

\* A pattern is a sequence of tokens: "^", "$", ".", "\\d" or a literal
\* character; a lone "(" does not compile (re.error).  No repetition.
ReCompiles(pattern) == \A i \in 1..Len(pattern) : pattern[i] # "("

RECURSIVE ReMatchAt(_, _, _)
\* Whether pattern matches s from 0-based position i on.
ReMatchAt(pattern, s, i) ==
    IF pattern = <<>> THEN TRUE
    ELSE LET tok == Head(pattern)
         IN  CASE tok = "^" -> i = 0 /\ ReMatchAt(Tail(pattern), s, i)
               [] tok = "$" -> i = Len(s) /\ ReMatchAt(Tail(pattern), s, i)
               [] tok = "\\d" -> i < Len(s) /\ IsDigit(s[i + 1])
                                  /\ ReMatchAt(Tail(pattern), s, i + 1)
               [] tok = "." -> i < Len(s) /\ ReMatchAt(Tail(pattern), s, i + 1)
               [] OTHER -> i < Len(s) /\ s[i + 1] = tok
                           /\ ReMatchAt(Tail(pattern), s, i + 1)

\* re.match(pattern, s): anchored at the start only
ReMatch(pattern, s) == ReMatchAt(pattern, s, 0)

\* d.get(key, dflt) of a dict modelled as a record holding the keys present
Get(d, key, dflt) == IF key \in DOMAIN d THEN d[key] ELSE dflt
Has(d, key) == key \in DOMAIN d

(***************************************************************************)
(* TaxFormRenderer.validate_value                                          *)
(***************************************************************************)
tRequired == <<"r", "e", "q", "u", "i", "r", "e", "d">>
tRegex == <<"r", "e", "g", "e", "x">>
tRange == <<"r", "a", "n", "g", "e">>
tLength == <<"l", "e", "n", "g", "t", "h">>
tCustom == <<"c", "u", "s", "t", "o", "m">>
sValidationFailed == <<" ", "v", "a", "l", "i", "d", "a", "t", "i", "o", "n", " ", "f", "a", "i", "l", "e", "d">>
sMustBeNumeric == <<"V", "a", "l", "u", "e", " ", "m", "u", "s", "t", " ", "b", "e", " ", "n", "u", "m", "e", "r", "i", "c", " ", "f", "o", "r", " ", "r", "a", "n", "g", "e", " ", "v", "a", "l", "i", "d", "a", "t", "i", "o", "n">>

\* Lines 239-241: the message of a rule
RuleMessage(validation) ==
    Get(validation, "error_message",
        Get(validation, "rule_type", <<>>) \o sValidationFailed)

\* Lines 252-263: the messages of one range rule
RangeErrors(value, params, error_msg) ==
    LET num_value == FloatOf(value)
    IN  IF num_value.exc # "none" THEN <<sMustBeNumeric>>
        ELSE (IF Has(params, "min") /\ num_value.c < 100 * params.min
              THEN <<error_msg>> ELSE <<>>)
             \o
             (IF Has(params, "max") /\ num_value.c > 100 * params.max
              THEN <<error_msg>> ELSE <<>>)

\* Lines 239-271: the messages one rule appends, or the exception it raises
RuleErrors(value, validation) ==
    LET rule_type == Get(validation, "rule_type", <<>>)
        params    == Get(validation, "parameters", <<>>)
        error_msg == RuleMessage(validation)
    IN  CASE rule_type = tRequired ->
                Return(IF value = None \/ Strip(StrOf(value)) = <<>>
                       THEN <<error_msg>> ELSE <<>>)
          [] rule_type = tRegex ->
                LET pattern == Get(params, "pattern", <<>>)
                IN  IF ~ReCompiles(pattern) THEN [exc |-> "re.error", value |-> <<>>]
                    ELSE Return(IF ~ReMatch(pattern, StrOf(value))
                                THEN <<error_msg>> ELSE <<>>)
          [] rule_type = tRange -> Return(RangeErrors(value, params, error_msg))
          [] rule_type = tLength ->
                LET min_length == Get(params, "min_length", 0)
                    length     == Len(StrOf(value))
                IN  Return(IF min_length <= length
                              /\ (Has(params, "max_length") => length <= params.max_length)
                           THEN <<>> ELSE <<error_msg>>)
          [] OTHER -> Return(<<>>)

RECURSIVE ValidateLoop(_, _, _)
\* The loop of lines 238-271: the rules still to evaluate, the errors so far
ValidateLoop(value, validations, errs) ==
    IF validations = <<>> THEN Return(errs)
    ELSE LET one == RuleErrors(value, Head(validations))
         IN  IF one.exc # "none" THEN one
             ELSE ValidateLoop(value, Tail(validations), errs \o one.value)

validate_value(value, validations) == ValidateLoop(value, validations, <<>>)

(***************************************************************************)
(* Numbers of the layout: exact rationals n/d with d > 0 (Python computes  *)
(* them in floating point; rounding is not modelled)                       *)
(***************************************************************************)
Abs(n) == IF n < 0 THEN -n ELSE n

RECURSIVE GCD(_, _)
GCD(a, b) == IF b = 0 THEN a ELSE GCD(b, a % b)

QNorm(n, d) ==
    LET g == GCD(Abs(n), d)
    IN  IF n < 0 THEN [n |-> -(Abs(n) \div g), d |-> d \div g]
        ELSE [n |-> n \div g, d |-> d \div g]

Q(n) == [n |-> n, d |-> 1]
QAdd(a, b) == QNorm(a.n * b.d + b.n * a.d, a.d * b.d)
QSub(a, b) == QNorm(a.n * b.d - b.n * a.d, a.d * b.d)
QMul(a, b) == QNorm(a.n * b.n, a.d * b.d)
\* a / b for b # 0
QDiv(a, b) == IF b.n < 0 THEN QNorm(-(a.n * b.d), a.d * (-b.n)) ELSE QNorm(a.n * b.d, a.d * b.n)
QLt(a, b) == a.n * b.d < b.n * a.d
QGt(a, b) == QLt(b, a)
QLe(a, b) == ~QLt(b, a)

(***************************************************************************)
(* The drawing surface: the canvas calls the renderer issues               *)
(***************************************************************************)
sCourier == <<"C", "o", "u", "r", "i", "e", "r">>
sHelvetica == <<"H", "e", "l", "v", "e", "t", "i", "c", "a">>
sTimesRoman == <<"T", "i", "m", "e", "s", "-", "R", "o", "m", "a", "n">>

\* Width of one glyph in thousandths of the font size, as the standard
\* font metrics behind canvas.stringWidth give it.
GlyphWidth(font_family, ch) ==
    IF font_family = sCourier THEN 600
    ELSE IF font_family = sHelvetica
    THEN CASE IsDigit(ch) -> 556
           [] ch \in {" ", ",", "."} -> 278
           [] ch = "-" -> 333
           [] ch \in {"A", "B", "E", "X"} -> 667
           [] ch \in {"N"} -> 722
           [] ch \in {"c", "x", "y"} -> 500
           [] OTHER -> 556
    ELSE CASE IsDigit(ch) -> 500
           [] ch \in {" ", ",", "."} -> 250
           [] ch = "-" -> 333
           [] ch \in {"A", "X", "N"} -> 722
           [] ch \in {"B"} -> 667
           [] ch \in {"a", "c", "e"} -> 444
           [] OTHER -> 500

RECURSIVE GlyphSum(_, _)
GlyphSum(text, font_family) ==
    IF text = <<>> THEN 0
    ELSE GlyphWidth(font_family, Head(text)) + GlyphSum(Tail(text), font_family)

\* c.stringWidth(text, font_family, font_size)
stringWidth(text, font_family, font_size) ==
    QMul(font_size, QNorm(GlyphSum(text, font_family), 1000))

SetFont(font_family, font_size) == [op |-> "setFont", font |-> font_family, size |-> font_size]
DrawString(x, y, text) == [op |-> "drawString", x |-> x, y |-> y, text |-> text]
Rect(x, y, width, height) == [op |-> "rect", x |-> x, y |-> y, width |-> width, height |-> height]
SetStrokeColor == [op |-> "setStrokeColorRGB"]
SetLineWidth == [op |-> "setLineWidth"]
SetPageSize(size) == [op |-> "setPageSize", width |-> size.width, height |-> size.height]
ShowPageOp == [op |-> "showPage"]
SaveOp == [op |-> "save"]

\* reportlab.lib.pagesizes.letter
LetterWidth == 612
LetterHeight == 792
letter == [width |-> Q(LetterWidth), height |-> Q(LetterHeight)]

(***************************************************************************)
(* TaxFormRenderer.format_value and the formatters                         *)
(***************************************************************************)
sMask == <<"m", "a", "s", "k">>
sCheckbox == <<"c", "h", "e", "c", "k", "b", "o", "x">>
UpperCase == <<"A", "B", "C", "D", "E", "F", "G", "H", "I", "J", "K", "L", "M", "N", "O", "P", "Q", "R", "S", "T", "U", "V", "W", "X", "Y", "Z">>
LowerCase == <<"a", "b", "c", "d", "e", "f", "g", "h", "i", "j", "k", "l", "m", "n", "o", "p", "q", "r", "s", "t", "u", "v", "w", "x", "y", "z">>

LowerChar(ch) ==
    IF \E i \in 1..Len(UpperCase) : UpperCase[i] = ch
    THEN LowerCase[CHOOSE i \in 1..Len(UpperCase) : UpperCase[i] = ch]
    ELSE ch

\* str.lower()
Lower(s) == [i \in 1..Len(s) |-> LowerChar(s[i])]

RECURSIVE Without(_, _)
\* s.replace(ch, '') for each ch of chars
Without(s, chars) ==
    IF s = <<>> THEN <<>>
    ELSE IF Head(s) \in chars THEN Without(Tail(s), chars)
    ELSE <<Head(s)>> \o Without(Tail(s), chars)

RECURSIVE MaskLoop(_, _, _)
\* The loop of lines 155-161: the pattern left, the source left, the result
MaskLoop(pattern, value_str, result) ==
    IF pattern = <<>> THEN result
    ELSE IF Head(pattern) \in {"#", "X"}
    THEN IF value_str # <<>>
         THEN MaskLoop(Tail(pattern), Tail(value_str), result \o <<Head(value_str)>>)
         ELSE MaskLoop(Tail(pattern), value_str, result)
    ELSE MaskLoop(Tail(pattern), value_str, result \o <<Head(pattern)>>)

_format_mask(value, params) ==
    MaskLoop(Get(params, "pattern", <<>>), Without(StrOf(value), {"-", " "}), <<>>)

CheckedWords == {<<"t", "r", "u", "e">>, <<"y", "e", "s">>, <<"1">>, <<"x">>}

_format_checkbox(value, params) ==
    LET checked_symbol   == Get(params, "checked_symbol", <<"X">>)
        unchecked_symbol == Get(params, "unchecked_symbol", <<>>)
        is_checked ==
            CASE value.t = "bool" -> value.b
              [] value.t = "str"  -> Lower(value.s) \in CheckedWords
              [] value.t = "int"  -> value.n # 0
              [] value.t = "float" -> value.c # 0
              [] OTHER -> FALSE
    IN  IF is_checked THEN checked_symbol ELSE unchecked_symbol

(***************************************************************************)
(* TaxFormRenderer._format_currency                                        *)
(***************************************************************************)
sCurrency == <<"c", "u", "r", "r", "e", "n", "c", "y">>
sParentheses == <<"p", "a", "r", "e", "n", "t", "h", "e", "s", "e", "s">>
sZeroAmount == <<"0", ".", "0", "0">>

RECURSIVE GroupDigits(_, _)
\* The digits in groups of three from the right, separator between them
GroupDigits(digits, separator) ==
    IF Len(digits) <= 3 THEN digits
    ELSE GroupDigits(Slice(digits, 0, Len(digits) - 3), separator) \o separator
         \o Slice(digits, Len(digits) - 3, Len(digits))

\* n / unit rounded to the nearest integer, a tie to the even one, as the
\* 'f' format rounds a float that is exact in binary
RoundHalfEven(n, unit) ==
    IF 2 * (n % unit) < unit THEN n \div unit
    ELSE IF 2 * (n % unit) > unit THEN (n \div unit) + 1
    ELSE IF (n \div unit) % 2 = 0 THEN n \div unit
    ELSE (n \div unit) + 1

RECURSIVE Zeros(_)
Zeros(n) == IF n <= 0 THEN <<>> ELSE <<"0">> \o Zeros(n - 1)

\* f"{num:,.{decimal_places}f}" with separator for the comma, for a
\* number num >= 0 of c hundredths
FixedPoint(c, decimal_places, separator) ==
    IF decimal_places = 0 THEN GroupDigits(NatStr(RoundHalfEven(c, 100)), separator)
    ELSE IF decimal_places = 1
    THEN GroupDigits(NatStr(RoundHalfEven(c, 10) \div 10), separator)
         \o <<".">> \o NatStr(RoundHalfEven(c, 10) % 10)
    ELSE GroupDigits(NatStr(c \div 100), separator)
         \o <<".">> \o NatStr((c % 100) \div 10) \o NatStr(c % 10)
         \o Zeros(decimal_places - 2)

\* Lines 128-132: the digits; the separator read at line 121 is not used,
\* both formats group with a comma
CurrencyDigits(c, params) ==
    IF Get(params, "show_cents", TRUE)
    THEN FixedPoint(c, Get(params, "decimal_places", 2), <<",">>)
    ELSE GroupDigits(NatStr(c \div 100), <<",">>)

\* Lines 134-136: the currency symbol
WithSymbol(formatted, symbol) == symbol \o formatted

\* Lines 138-143: the sign
WithSign(formatted, is_negative, negative_format) ==
    IF ~is_negative THEN formatted
    ELSE IF negative_format = sParentheses THEN <<"(">> \o formatted \o <<")">>
    ELSE <<"-">> \o formatted

\* Lines 117-145, with num_value the result of float(value) in hundredths
CurrencyOf(num_value, params) ==
    IF num_value.exc # "none" THEN sZeroAmount
    ELSE WithSign(WithSymbol(CurrencyDigits(Abs(num_value.c), params),
                             Get(params, "currency_symbol", <<"$">>)),
                  num_value.c < 0, Get(params, "negative_format", sParentheses))

_format_currency(value, params) == CurrencyOf(FloatOf(value), params)

\* `not formatting`: None and the empty dict are false
NoFormatting(formatting) == formatting = None \/ DOMAIN formatting = {}

\* Lines 89-109; the date and percentage formatters are not part of the
\* model, and no field of the model asks for them.
format_value(value, formatting) ==
    IF value = None THEN <<>>
    ELSE IF NoFormatting(formatting) THEN StrOf(value)
    ELSE LET format_type == Get(formatting, "format_type", <<>>)
             params      == Get(formatting, "parameters", <<>>)
         IN  CASE format_type = sCurrency -> _format_currency(value, params)
               [] format_type = sMask -> _format_mask(value, params)
               [] format_type = sCheckbox -> _format_checkbox(value, params)
               [] OTHER -> StrOf(value)

(***************************************************************************)
(* TaxFormRenderer._render_field                                           *)
(***************************************************************************)
sUnknown == <<"u", "n", "k", "n", "o", "w", "n">>
sAbsolute == <<"a", "b", "s", "o", "l", "u", "t", "e">>
sPercentage == <<"p", "e", "r", "c", "e", "n", "t", "a", "g", "e">>
sLeft == <<"l", "e", "f", "t">>
sRight == <<"r", "i", "g", "h", "t">>
sCenter == <<"c", "e", "n", "t", "e", "r">>
sTruncate == <<"t", "r", "u", "n", "c", "a", "t", "e">>
sShrink == <<"s", "h", "r", "i", "n", "k">>
sWrap == <<"w", "r", "a", "p">>
sError == <<"e", "r", "r", "o", "r">>
sTruncatedTo == <<"V", "a", "l", "u", "e", " ", "t", "r", "u", "n", "c", "a", "t", "e", "d", " ", "t", "o", " ">>
sCharacters == <<" ", "c", "h", "a", "r", "a", "c", "t", "e", "r", "s">>

\* Line 357: the padding of a field that declares none
DefaultPadding == [top |-> 0, right |-> 2, bottom |-> 0, left |-> 2]

\* What one call of _render_field did: the exception that left it ("none"
\* when it returned), the canvas calls it issued, and what it appended to
\* self.errors and self.warnings before returning or raising.
Outcome(exc, ops, errs, warns) ==
    [exc |-> exc, ops |-> ops, errors |-> errs, warnings |-> warns]

\* A skip rule that spares the fields declaring validation rules
SkipsUnvalidatedField(value, field) ==
    value = None /\ ~Get(field, "required", FALSE) /\ Get(field, "validation", <<>>) = <<>>

\* Line 339: skip if no value and not required
SkipsField(value, field) == value = None /\ ~Get(field, "required", FALSE)

\* Line 346: the messages as they are added to self.errors
ErrorLines(field_id, validation_errors) ==
    [i \in 1..Len(validation_errors) |-> field_id \o <<":", " ">> \o validation_errors[i]]

\* A blocking rule that reads the required flag the wrong way round
BlocksOptional(validation_errors, field) ==
    validation_errors # <<>> /\ ~Get(field, "required", FALSE)

\* Lines 345-348: a required field that fails validation is not rendered
BlocksRendering(validation_errors, field) ==
    validation_errors # <<>> /\ Get(field, "required", FALSE)

\* Lines 359-375: x, y, width, height in canvas coordinates
FieldGeometry(field, pagesize) ==
    LET position   == Get(field, "position", <<>>)
        dimensions == Get(field, "dimensions", <<>>)
        x0      == Q(Get(position, "x", 0))
        y0      == Q(Get(position, "y", 0))
        width0  == Q(Get(dimensions, "width", 100))
        height0 == Q(Get(dimensions, "height", 20))
        pct     == Get(position, "coordinate_system", sAbsolute) = sPercentage
        x      == IF pct THEN QMul(QDiv(x0, Q(100)), pagesize.width) ELSE x0
        y1     == IF pct THEN QMul(QDiv(y0, Q(100)), pagesize.height) ELSE y0
        width  == IF pct THEN QMul(QDiv(width0, Q(100)), pagesize.width) ELSE width0
        height == IF pct THEN QMul(QDiv(height0, Q(100)), pagesize.height) ELSE height0
    IN  [x |-> x, y |-> QSub(QSub(pagesize.height, y1), height),
         width |-> width, height |-> height]

\* Lines 383-388: the font families the canvas is given
FontMap(font_family) ==
    IF font_family \in {sCourier, sHelvetica, sTimesRoman} THEN font_family ELSE sCourier

RECURSIVE CharacterSpacedAdvancing(_, _, _, _)
\* A loop that advances current_x past the separators it does not draw
CharacterSpacedAdvancing(text, current_x, y, spacing) ==
    IF text = <<>> THEN <<>>
    ELSE IF Head(text) \notin {"-", " "}
    THEN <<DrawString(current_x, y, <<Head(text)>>)>>
         \o CharacterSpacedAdvancing(Tail(text), QAdd(current_x, spacing), y, spacing)
    ELSE CharacterSpacedAdvancing(Tail(text), QAdd(current_x, spacing), y, spacing)

RECURSIVE CharacterSpacedLoop(_, _, _, _)
\* The loop of lines 446-449: the text left, current_x
CharacterSpacedLoop(text, current_x, y, spacing) ==
    IF text = <<>> THEN <<>>
    ELSE IF Head(text) \notin {"-", " "}
    THEN <<DrawString(current_x, y, <<Head(text)>>)>>
         \o CharacterSpacedLoop(Tail(text), QAdd(current_x, spacing), y, spacing)
    ELSE CharacterSpacedLoop(Tail(text), current_x, y, spacing)

_render_character_spaced(text, x, y, spacing) == CharacterSpacedLoop(text, x, y, spacing)

\* Lines 410-415 and 427-430: the x of the text for its alignment.  The
\* padding keys are read as the code reads them: left always, right for a
\* right alignment.
AlignedX(alignment, g, text_width, padding) ==
    IF alignment = sRight
    THEN QSub(QSub(QAdd(g.x, g.width), text_width), Q(padding.right))
    ELSE IF alignment = sCenter
    THEN QAdd(g.x, QDiv(QSub(g.width, text_width), Q(2)))
    ELSE QAdd(g.x, Q(padding.left))

\* Line 419: width - padding['left'] - padding['right']
AvailableWidth(g, padding) == QSub(QSub(g.width, Q(padding.left)), Q(padding.right))

\* Line 419: the shrink branch is taken
ShrinkApplies(overflow, text_width, g, padding) ==
    overflow = sShrink /\ QGt(text_width, AvailableWidth(g, padding))

\* A truncate branch that is taken whatever the overflow policy
TruncateAnyPolicy(overflow, max_length, formatted_value) ==
    max_length # 0 /\ Len(formatted_value) > max_length

\* Lines 432-434: the truncate branch cuts the text
TruncateApplies(overflow, max_length, formatted_value) ==
    overflow = sTruncate /\ max_length # 0 /\ Len(formatted_value) > max_length

\* Line 439: text_y
TextY(g, font_size) ==
    QAdd(QAdd(g.y, QDiv(QSub(g.height, font_size), Q(2))), QMul(font_size, QNorm(3, 10)))

\* Line 422: new_size
ShrunkSize(font_size, text_width, g, padding) ==
    QMul(QMul(font_size, QDiv(AvailableWidth(g, padding), text_width)), QNorm(95, 100))

\* Lines 423-430 and 440: the font is set to new_size, the text remeasured,
\* realigned and drawn
DrawShrunk(formatted_value, alignment, g, font_family, new_size, padding, text_y, ops, errs) ==
    Outcome("none",
            ops \o <<SetFont(font_family, new_size),
                     DrawString(AlignedX(alignment, g,
                                         stringWidth(formatted_value, font_family, new_size),
                                         padding),
                                text_y, formatted_value)>>,
            errs, <<>>)

\* Line 436: the warning of a truncation
TruncationWarning(field_id, max_length) ==
    field_id \o <<":", " ">> \o sTruncatedTo \o IntStr(max_length) \o sCharacters

\* Lines 410-440: alignment, overflow and the drawing of the text, with
\* text_width the width measured at line 409.  The padding keys are read
\* in the order of the code, and a missing one raises KeyError.
DrawText(field_id, formatted_value, alignment, overflow, max_length, g, font_family, font_size, padding, text_width, ops, errs) ==
    IF ~Has(padding, "left") \/ (alignment = sRight /\ ~Has(padding, "right"))
    THEN Outcome("KeyError", ops, errs, <<>>)
    ELSE IF overflow = sShrink /\ ~Has(padding, "right")
    THEN Outcome("KeyError", ops, errs, <<>>)
    ELSE IF ShrinkApplies(overflow, text_width, g, padding)
    THEN IF text_width.n = 0
         THEN Outcome("ZeroDivisionError", ops, errs, <<>>)
         ELSE DrawShrunk(formatted_value, alignment, g, font_family,
                         ShrunkSize(font_size, text_width, g, padding), padding,
                         TextY(g, font_size), ops, errs)
    ELSE IF TruncateApplies(overflow, max_length, formatted_value)
    THEN Outcome("none",
                 ops \o <<DrawString(AlignedX(alignment, g, text_width, padding),
                                     TextY(g, font_size),
                                     Slice(formatted_value, 0, max_length))>>,
                 errs, <<TruncationWarning(field_id, max_length)>>)
    ELSE Outcome("none",
                 ops \o <<DrawString(AlignedX(alignment, g, text_width, padding),
                                     TextY(g, font_size), formatted_value)>>,
                 errs, <<>>)

\* Lines 390-396: the font is set and, in debug mode, the box stroked
FontAndBox(g, font_family, font_size, show_debug_boxes) ==
    <<SetFont(font_family, font_size)>>
    \o (IF show_debug_boxes
        THEN <<SetStrokeColor, SetLineWidth, Rect(g.x, g.y, g.width, g.height)>>
        ELSE <<>>)

\* Lines 398-440: the character-spaced text, or the aligned text
DrawField(field, field_id, formatted_value, padding, g, font_family, font_size, ops, errs) ==
    IF Get(field, "character_spacing", 0) # 0
    THEN IF ~Has(padding, "left") THEN Outcome("KeyError", ops, errs, <<>>)
         ELSE Outcome("none",
                      ops \o _render_character_spaced(
                                 formatted_value, QAdd(g.x, Q(padding.left)),
                                 QAdd(g.y, QDiv(g.height, Q(2))),
                                 Q(field.character_spacing)),
                      errs, <<>>)
    ELSE DrawText(field_id, formatted_value, Get(field, "alignment", sLeft),
                  Get(field, "overflow_behavior", sTruncate), Get(field, "max_length", 0),
                  g, font_family, font_size, padding,
                  stringWidth(formatted_value, font_family, font_size), ops, errs)

\* Lines 354-396: geometry, font and debug box
LayOutField(field, field_id, formatted_value, g, font_family, font_size, errs, show_debug_boxes) ==
    DrawField(field, field_id, formatted_value, Get(field, "padding", DefaultPadding), g,
              font_family, font_size,
              FontAndBox(g, font_family, font_size, show_debug_boxes), errs)

\* Lines 350-440: formatting, then layout and drawing
FormatAndDraw(field, field_id, value, errs, pagesize, show_debug_boxes) ==
    LayOutField(field, field_id, format_value(value, Get(field, "formatting", None)),
                FieldGeometry(field, pagesize),
                FontMap(Get(Get(field, "font_style", <<>>), "font_family", sCourier)),
                Q(Get(Get(field, "font_style", <<>>), "font_size", 10)),
                errs, show_debug_boxes)

\* Lines 342-440, with checked the result of validate_value
AfterValidation(field, field_id, value, checked, pagesize, show_debug_boxes) ==
    IF checked.exc # "none" THEN Outcome(checked.exc, <<>>, <<>>, <<>>)
    ELSE IF BlocksRendering(checked.value, field)
    THEN Outcome("none", <<>>, ErrorLines(field_id, checked.value), <<>>)
    ELSE FormatAndDraw(field, field_id, value, ErrorLines(field_id, checked.value),
                       pagesize, show_debug_boxes)

\* Lines 338-440, with resolved the result of resolve_value_reference
AfterResolution(field, resolved, pagesize, show_debug_boxes) ==
    IF resolved.exc # "none" THEN Outcome(resolved.exc, <<>>, <<>>, <<>>)
    ELSE IF SkipsField(resolved.value, field) THEN Outcome("none", <<>>, <<>>, <<>>)
    ELSE AfterValidation(field, Get(field, "field_id", sUnknown), resolved.value,
                         validate_value(resolved.value, Get(field, "validation", <<>>)),
                         pagesize, show_debug_boxes)

\* Lines 332-336: the value of a field in data document doc
ResolveField(doc, field) ==
    resolve_value_reference(doc, Get(Get(field, "value_reference", <<>>), "path", <<>>),
                            Get(Get(field, "value_reference", <<>>), "default_value", None))

\* Lines 327-440, on data document doc and a canvas of page size pagesize
_render_field(doc, field, pagesize, show_debug_boxes) ==
    AfterResolution(field, ResolveField(doc, field), pagesize, show_debug_boxes)

(***************************************************************************)
(* Inputs of the path resolver: data documents and path strings            *)
(***************************************************************************)
kA == <<"a">>
kB == <<"b">>
kEmpty == <<>>

\* {"a": {"a": 5, "b": [7, "xy"]}, "b": [{"a": 1}, [2, 3]]}
Doc1 == PyDict((kA :> PyDict((kA :> PyInt(5)) @@ (kB :> PyList(<<PyInt(7), PyStr(<<"x", "y">>)>>))))
            @@ (kB :> PyList(<<PyDict(kA :> PyInt(1)), PyList(<<PyInt(2), PyInt(3)>>)>>)))
\* {"a": null, "b": "xy"}
Doc2 == PyDict((kA :> None) @@ (kB :> PyStr(<<"x", "y">>)))
\* {"a": [{"b": []}, null], "": {"a": 0}}
Doc3 == PyDict((kA :> PyList(<<PyDict(kB :> PyList(<<>>)), None>>))
            @@ (kEmpty :> PyDict(kA :> PyInt(0))))
\* {}
Doc4 == PyDict(<<>>)
\* {"a": {"b": {"a": "x"}}, "b": 4}
Doc5 == PyDict((kA :> PyDict(kB :> PyDict(kA :> PyStr(<<"x">>)))) @@ (kB :> PyInt(4)))
\* [1, 2]
Doc6 == PyList(<<PyInt(1), PyInt(2)>>)

Docs == {Doc1, Doc2, Doc3, Doc4, Doc5, Doc6}

Defaults == {None, PyStr(<<"d">>)}

\* Number of dot-separated segments of the paths tried.
MaxSegments == 2

Bases == {<<>>, <<"a">>, <<"b">>}
Suffixes == {<<>>, <<"[", "0", "]">>, <<"[", "1", "]">>, <<"[", "-", "1", "]">>,
             <<"[", "a", "]">>, <<"]", "0", "[">>, <<"[", "0", "]", "[", "1", "]">>}
Segments == {b \o s : b \in Bases, s \in Suffixes}

RECURSIVE PathsOf(_)
PathsOf(n) ==
    IF n = 0 THEN {<<>>}
    ELSE IF n = 1 THEN Segments
    ELSE {p \o <<".">> \o s : p \in PathsOf(n - 1), s \in Segments}

Paths == UNION {PathsOf(n) : n \in 0..MaxSegments}

(***************************************************************************)
(* The renderer at rest, for the specifications of single functions        *)
(***************************************************************************)
RenderAtRest ==
    /\ annotation = <<>>
    /\ show_debug = FALSE
    /\ errors = <<>>
    /\ warnings = <<>>
    /\ canvas = <<>>
    /\ pc = "idle"
    /\ pages = <<>>
    /\ page_order = <<>>
    /\ page_idx = 0
    /\ field_idx = 0
    /\ reports = <<>>
    /\ raised = "none"
    /\ calls = 0

NoCall == [fn |-> "none"]
NoRet == [exc |-> "pending", value |-> None]

(***************************************************************************)
(* SpecResolve: resolve_value_reference on every path and document         *)
(***************************************************************************)
InitResolve ==
    /\ data \in Docs
    /\ call \in {[fn |-> "resolve_value_reference", path |-> p, default |-> d] :
                    p \in Paths, d \in Defaults}
    /\ ret = NoRet
    /\ RenderAtRest

Resolve ==
    /\ call.fn = "resolve_value_reference"
    /\ ret = NoRet
    /\ ret' = resolve_value_reference(data, call.path, call.default)
    /\ UNCHANGED <<data, call>>
    /\ UNCHANGED renderVars

NextResolve == Resolve

SpecResolve == InitResolve /\ [][NextResolve]_vars

Resolved == call.fn = "resolve_value_reference" /\ ret # NoRet

\* C2: resolve_value_reference never raises to its caller: every call
\* returns a value (the nested value or the default).
C2_NeverRaises == Resolved => ret.exc = "none"

(***************************************************************************)
(* The resolver as the specification describes it, to state C3             *)
(***************************************************************************)
\* A well-formed segment is a base key, or a base key and one [n] with n a
\* natural number literal ending the segment.
SegmentShape(key) ==
    LET lb == IndexOf(key, "[")
        rb == IndexOf(key, "]")
    IN  IF lb = 0 /\ rb = 0 THEN [ok |-> TRUE, base |-> key, sub |-> FALSE, n |-> 0]
        ELSE IF lb # 0 /\ rb = Len(key) /\ lb + 1 < rb
                /\ \A i \in (lb + 1)..(rb - 1) : IsDigit(key[i])
        THEN [ok |-> TRUE, base |-> Slice(key, 0, lb - 1), sub |-> TRUE,
              n |-> DigitsVal(Slice(key, lb, rb - 1))]
        ELSE [ok |-> FALSE, base |-> key, sub |-> FALSE, n |-> 0]

RECURSIVE Lookup(_, _)
\* [found, value]: found when every segment is present.
Lookup(value, keys) ==
    IF keys = <<>> THEN [found |-> TRUE, value |-> value]
    ELSE LET seg == SegmentShape(Head(keys))
         IN  IF ~seg.ok \/ value.t # "dict" \/ seg.base \notin DOMAIN value.m
             THEN [found |-> FALSE, value |-> None]
             ELSE LET v == value.m[seg.base]
                  IN  IF ~seg.sub THEN Lookup(v, Tail(keys))
                      ELSE IF v.t = "list" /\ seg.n < Len(v.items)
                      THEN Lookup(v.items[seg.n + 1], Tail(keys))
                      ELSE [found |-> FALSE, value |-> None]

NestedValue(doc, path) ==
    IF path = <<>> THEN [found |-> FALSE, value |-> None]
    ELSE Lookup(doc, Split(path, "."))

\* C3: the call returns the exact nested value when every segment of the
\* path is present, and the default in every other case.
C3_ExactOrDefault ==
    Resolved =>
        LET nested == NestedValue(data, call.path)
        IN  ret = Return(IF nested.found THEN nested.value ELSE call.default)
(***************************************************************************)
(* tax_annotation_system.ValidationRule                                    *)
(***************************************************************************)
\* Line 101: error_message: str = ""
DefaultErrorMessage == <<>>

\* Lines 96-101: the dataclass
ValidationRule(rule_type, parameters, error_message) ==
    [rule_type |-> rule_type, parameters |-> parameters, error_message |-> error_message]

\* Lines 103-108: ValidationRule.to_dict writes the three keys, always
ValidationRule_to_dict(rule) ==
    [rule_type |-> rule.rule_type, parameters |-> rule.parameters,
     error_message |-> rule.error_message]

(***************************************************************************)
(* SpecValidate: validate_value on every value and rule list               *)
(***************************************************************************)
Values == {None, PyStr(<<>>), PyStr(<<" ">>), PyStr(<<"1", "2">>), PyStr(<<"a", "b">>),
           PyInt(7), PyInt(0), PyBool(TRUE), PyList(<<>>)}

NoParams == <<>>

\* rule_type and parameters of the rules tried
RuleShapes ==
    {[rule_type |-> tRequired, parameters |-> NoParams],
     [rule_type |-> tRegex, parameters |-> [pattern |-> <<"^", "\\d", "\\d", "$">>]],
     [rule_type |-> tRegex, parameters |-> [pattern |-> <<"(">>]],
     [rule_type |-> tRange, parameters |-> [min |-> 1, max |-> 10]],
     [rule_type |-> tRange, parameters |-> [min |-> 10, max |-> 5]],
     [rule_type |-> tRange, parameters |-> [min |-> 10]],
     [rule_type |-> tLength, parameters |-> [min_length |-> 1, max_length |-> 2]],
     [rule_type |-> tLength, parameters |-> [min_length |-> 3]],
     [rule_type |-> tCustom, parameters |-> NoParams]}

\* error_message: not configured, configured, or written by to_dict for a
\* rule built without one
Rules ==
    RuleShapes
    \cup {[rule_type |-> r.rule_type, parameters |-> r.parameters,
           error_message |-> <<"E">>] : r \in RuleShapes}
    \cup {ValidationRule_to_dict(ValidationRule(r.rule_type, r.parameters,
                                                DefaultErrorMessage)) : r \in RuleShapes}

\* Number of rules of the rule lists tried.
MaxRules == 2

RECURSIVE SeqsOf(_, _)
\* The sequences of exactly n elements of S
SeqsOf(S, n) ==
    IF n = 0 THEN {<<>>} ELSE {<<x>> \o rest : x \in S, rest \in SeqsOf(S, n - 1)}

SeqsUpTo(S, n) == UNION {SeqsOf(S, k) : k \in 0..n}

InitValidate ==
    /\ data = PyDict(<<>>)
    /\ call \in {[fn |-> "validate_value", value |-> v, validations |-> rs] :
                    v \in Values, rs \in SeqsUpTo(Rules, MaxRules)}
    /\ ret = NoRet
    /\ RenderAtRest

Validate ==
    /\ call.fn = "validate_value"
    /\ ret = NoRet
    /\ ret' = validate_value(call.value, call.validations)
    /\ UNCHANGED <<data, call>>
    /\ UNCHANGED renderVars

NextValidate == Validate

SpecValidate == InitValidate /\ [][NextValidate]_vars

Validated == call.fn = "validate_value" /\ ret # NoRet

RECURSIVE OnePerFailedRule(_, _)
\* One message for each rule that fails, none for a rule that passes, in
\* the order of the rules.
OnePerFailedRule(value, validations) ==
    IF validations = <<>> THEN <<>>
    ELSE LET one == RuleErrors(value, Head(validations)).value
         IN  (IF one = <<>> THEN <<>> ELSE <<one[1]>>)
             \o OnePerFailedRule(value, Tail(validations))

\* C7: validate_value returns one message per failed rule and none for a
\* rule that passes, in the order of the rules: at most one per rule.
C7_OnePerFailedRule ==
    (Validated /\ ret.exc = "none") =>
        /\ ret.value = OnePerFailedRule(call.value, call.validations)
        /\ Len(ret.value) <= Len(call.validations)
(***************************************************************************)
(* TaxFormRenderer.render_to_pdf                                           *)
(***************************************************************************)
\* Number of render_to_pdf calls made on one renderer.
MaxCalls == 2

\* Line 319 and 324: the summary shows the first 10 messages
ReportLimit == 10

RECURSIVE GroupLoop(_, _)
\* The loop of lines 290-294: the fields left, the dict built so far
GroupLoop(fields, grouped) ==
    IF fields = <<>> THEN grouped
    ELSE LET page_num == Get(Head(fields), "page_number", 1)
             sofar    == IF page_num \in DOMAIN grouped THEN grouped[page_num] ELSE <<>>
         IN  GroupLoop(Tail(fields),
                       [p \in DOMAIN grouped \cup {page_num} |->
                           IF p = page_num THEN Append(sofar, Head(fields)) ELSE grouped[p]])

RECURSIVE Sorted(_)
\* sorted(keys) of a set of numbers
Sorted(S) == IF S = {} THEN <<>> ELSE <<MinOf(S)>> \o Sorted(S \ {MinOf(S)})

\* Lines 301-305: the page size of page page_num
PageSize(page_num) ==
    LET page_dimensions == Get(Get(annotation, "metadata", <<>>), "page_dimensions", <<>>)
    IN  IF Has(page_dimensions, IntStr(page_num))
        THEN [width  |-> Q(page_dimensions[IntStr(page_num)].width),
              height |-> Q(page_dimensions[IntStr(page_num)].height)]
        ELSE letter

\* Lines 317-325: the summary printed at the end of a call
Report(errs, warns) ==
    [errors   |-> Len(errs), first_errors |-> Slice(errs, 0, ReportLimit),
     warnings |-> Len(warns), first_warnings |-> Slice(warns, 0, ReportLimit)]

CurrentPage == page_order[page_idx]
CurrentField == pages[CurrentPage][field_idx]

\* Lines 283-294 and 297: a new canvas, the fields grouped by page
BeginRender ==
    /\ pc \in {"idle", "done"}
    /\ calls < MaxCalls
    /\ calls' = calls + 1
    /\ canvas' = <<>>
    /\ pages' = GroupLoop(Get(annotation, "fields", <<>>), <<>>)
    /\ page_order' = Sorted(DOMAIN pages')
    /\ page_idx' = 1
    /\ field_idx' = 1
    /\ pc' = "page"
    /\ UNCHANGED <<data, annotation, show_debug, errors, warnings, reports, raised, call, ret>>

\* Lines 297-305: the next page of the loop
StartPage ==
    /\ pc = "page"
    /\ page_idx <= Len(page_order)
    /\ canvas' = Append(canvas, SetPageSize(PageSize(CurrentPage)))
    /\ field_idx' = 1
    /\ pc' = "field"
    /\ UNCHANGED <<data, annotation, show_debug, errors, warnings, pages, page_order,
                   page_idx, reports, raised, calls, call, ret>>

\* The effect of a call of _render_field on the renderer and the canvas;
\* an exception leaves render_to_pdf (line 309 is in no try block)
Rendered(done) ==
    /\ canvas' = canvas \o done.ops
    /\ errors' = errors \o done.errors
    /\ warnings' = warnings \o done.warnings
    /\ raised' = done.exc
    /\ pc' = IF done.exc = "none" THEN "field" ELSE "raised"
    /\ field_idx' = IF done.exc = "none" THEN field_idx + 1 ELSE field_idx

\* Lines 308-309: _render_field on the next field of the page
RenderField ==
    /\ pc = "field"
    /\ field_idx <= Len(pages[CurrentPage])
    /\ Rendered(_render_field(data, CurrentField, PageSize(CurrentPage), show_debug))
    /\ UNCHANGED <<data, annotation, show_debug, pages, page_order, page_idx, reports,
                   calls, call, ret>>

\* Line 311: the page is complete
ShowPage ==
    /\ pc = "field"
    /\ field_idx > Len(pages[CurrentPage])
    /\ canvas' = Append(canvas, ShowPageOp)
    /\ page_idx' = page_idx + 1
    /\ pc' = "page"
    /\ UNCHANGED <<data, annotation, show_debug, errors, warnings, pages, page_order,
                   field_idx, reports, raised, calls, call, ret>>

\* Lines 313-325: the file is saved and the summary printed
Save ==
    /\ pc = "page"
    /\ page_idx > Len(page_order)
    /\ canvas' = Append(canvas, SaveOp)
    /\ reports' = Append(reports, Report(errors, warnings))
    /\ pc' = "done"
    /\ UNCHANGED <<data, annotation, show_debug, errors, warnings, pages, page_order,
                   page_idx, field_idx, raised, calls, call, ret>>

Next == BeginRender \/ StartPage \/ RenderField \/ ShowPage \/ Save

\* Lines 22-37: the state after construction, whatever the documents
InitRenderer ==
    /\ errors = <<>>
    /\ warnings = <<>>
    /\ canvas = <<>>
    /\ pc = "idle"
    /\ pages = <<>>
    /\ page_order = <<>>
    /\ page_idx = 0
    /\ field_idx = 0
    /\ reports = <<>>
    /\ raised = "none"
    /\ calls = 0
    /\ call = NoCall
    /\ ret = NoRet
(***************************************************************************)
(* Annotation documents                                                    *)
(***************************************************************************)
kC == <<"c">>

\* An optional key of a JSON object: <<>> leaves it out, <<v>> sets it
OptKey(key, opt) == IF opt = <<>> THEN <<>> ELSE key :> opt[1]

RequiredRule == [rule_type |-> tRequired, parameters |-> NoParams]
TwoDigitsRule ==
    [rule_type |-> tRegex, parameters |-> [pattern |-> <<"^", "\\d", "\\d", "$">>],
     error_message |-> <<"E">>]
BadPatternRule == [rule_type |-> tRegex, parameters |-> [pattern |-> <<"(">>]]
InvertedRangeRule == [rule_type |-> tRange, parameters |-> [min |-> 10, max |-> 5]]

\* A field as FieldAnnotation.to_dict writes it, with the optional keys of
\* more (a function from key to value) added or replaced.
Field(field_id, page_number, path, default, required, validation, width, more) ==
    more @@
    [field_id |-> field_id,
     page_number |-> page_number,
     value_reference |-> OptKey("default_value", default) @@ [path |-> path],
     required |-> required,
     validation |-> validation,
     position |-> [x |-> 50, y |-> 150, coordinate_system |-> sAbsolute],
     dimensions |-> [width |-> width, height |-> 20]]

\* metadata: page 1 declares its size, every other page is letter
Metadata == [page_dimensions |-> (<<"1">> :> [width |-> 800, height |-> 1000])]

(***************************************************************************)
(* Spec: render passes over annotations of several fields and pages        *)
(***************************************************************************)
\* Number of fields of the annotations tried.
MaxFields == 3

\* {"a": "12", "c": "1234567"}
RenderDoc == PyDict((kA :> PyStr(<<"1", "2">>)) @@ (kC :> PyStr(<<"1", "2", "3", "4", "5", "6", "7">>)))

\* The kinds of field of these annotations: one that is drawn, a required
\* one with no value, one whose text is truncated, one whose path has a
\* non-integer subscript, an optional one with no value.
FieldKinds == {"drawn", "missing", "truncated", "subscript", "skipped"}

PageNumbers == {1, 2}

KindField(kind, field_id, page_number) ==
    CASE kind = "drawn" ->
            Field(field_id, page_number, kA, <<>>, FALSE, <<>>, 100, <<>>)
      [] kind = "missing" ->
            Field(field_id, page_number, kB, <<>>, TRUE, <<RequiredRule>>, 100, <<>>)
      [] kind = "truncated" ->
            Field(field_id, page_number, kC, <<>>, FALSE, <<>>, 100, "max_length" :> 3)
      [] kind = "subscript" ->
            Field(field_id, page_number, <<"a", "[", "x", "]">>, <<>>, FALSE, <<>>, 100, <<>>)
      [] kind = "skipped" ->
            Field(field_id, page_number, kB, <<>>, FALSE, <<RequiredRule>>, 100, <<>>)

\* The annotation whose i-th field is of kind shape[i][1] on page shape[i][2];
\* field ids are unique: f1, f2, ...
AnnotationOf(shape) ==
    [metadata |-> Metadata,
     fields |-> [i \in 1..Len(shape) |->
                    KindField(shape[i][1], <<"f">> \o IntStr(i), shape[i][2])]]

Init ==
    /\ data = RenderDoc
    /\ annotation \in {AnnotationOf(shape) :
                          shape \in SeqsUpTo(FieldKinds \X PageNumbers, MaxFields)}
    /\ show_debug = FALSE
    /\ InitRenderer

Spec == Init /\ [][Next]_vars
(***************************************************************************)
(* SpecField: render passes over annotations of one field, the field       *)
(* drawn from the combinations of its keys                                 *)
(***************************************************************************)
FieldValues == {PyStr(<<>>), PyStr(<<"1", "2">>), PyStr(<<"1", "2", "3", "4", "5", "6", "7">>), PyStr(<<" ", "-">>),
                PyInt(7)}

\* {} and {"a": v}
FieldDocs == {PyDict(<<>>)} \cup {PyDict(kA :> v) : v \in FieldValues}

DefaultValues == {<<>>, <<PyStr(<<"0">>)>>}

Validations == {<<>>, <<RequiredRule>>, <<RequiredRule, TwoDigitsRule>>,
                <<InvertedRangeRule>>, <<BadPatternRule>>}

\* narrower than the padding, narrower than the longest text, wide
Widths == {3, 30, 100}

CharacterSpacings == {<<>>, <<8>>}
Overflows == {<<>>, <<sShrink>>, <<sWrap>>, <<sError>>}
MaxLengths == {<<>>, <<3>>}
Alignments == {<<>>, <<sRight>>, <<sCenter>>}
FontStyles == {<<>>, <<[font_family |-> sHelvetica, font_size |-> 12]>>,
               <<[font_family |-> <<"A", "r", "i", "a", "l">>, font_size |-> 8]>>}
Paddings == {<<>>, <<[top |-> 0, bottom |-> 0]>>, <<[top |-> 1, right |-> 1, bottom |-> 1, left |-> 5]>>}
Formattings ==
    {<<>>,
     <<[format_type |-> sMask, parameters |-> [pattern |-> <<"X", "X", "-", "#">>]]>>,
     <<[format_type |-> sCheckbox, parameters |-> NoParams]>>}

\* Validation, skipping and the overflow policies
CoreFields ==
    {Field(<<"f", "1">>, 1, kA, default, required, validation, width,
           OptKey("character_spacing", spacing) @@ OptKey("overflow_behavior", overflow)
               @@ OptKey("max_length", max_length)) :
        default \in DefaultValues, required \in BOOLEAN, validation \in Validations,
        width \in Widths, spacing \in CharacterSpacings, overflow \in Overflows,
        max_length \in MaxLengths}

\* Alignment, fonts, padding and formatting of an optional field
LayoutFields ==
    {Field(<<"f", "1">>, 1, kA, <<>>, FALSE, <<>>, width,
           OptKey("alignment", alignment) @@ OptKey("overflow_behavior", overflow)
               @@ OptKey("max_length", max_length) @@ OptKey("font_style", font_style)
               @@ OptKey("padding", padding) @@ OptKey("formatting", formatting)) :
        width \in Widths, alignment \in Alignments, overflow \in Overflows \ {<<sError>>},
        max_length \in MaxLengths, font_style \in FontStyles, padding \in Paddings,
        formatting \in Formattings}

\* Percentage coordinates, character spacing and padding, with and without
\* debug boxes
PlacedFields ==
    {Field(<<"f", "1">>, page_number, kA, <<>>, FALSE, <<>>, 50,
           OptKey("alignment", alignment) @@ OptKey("character_spacing", spacing)
               @@ OptKey("padding", padding)
               @@ ("position" :> [x |-> 50, y |-> 10, coordinate_system |-> system])) :
        page_number \in PageNumbers, alignment \in Alignments,
        spacing \in CharacterSpacings, padding \in Paddings,
        system \in {sAbsolute, sPercentage}}

\* A subscript that is no integer
SubscriptFields ==
    {Field(<<"f", "1">>, 1, <<"a", "[", "x", "]">>, default, required, validation, 100, <<>>) :
        default \in DefaultValues, required \in BOOLEAN,
        validation \in {<<>>, <<RequiredRule>>}}

FieldInputs ==
    {[doc |-> doc, field |-> f, debug |-> FALSE] :
        doc \in FieldDocs, f \in CoreFields \cup SubscriptFields}
    \cup {[doc |-> PyDict(kA :> v), field |-> f, debug |-> FALSE] :
            v \in {PyStr(<<>>), PyStr(<<"1", "2">>), PyStr(<<"1", "2", "3", "4", "5", "6", "7">>)}, f \in LayoutFields}
    \cup {[doc |-> PyDict(kA :> PyStr(<<"1", "-", "2">>)), field |-> f, debug |-> d] :
            f \in PlacedFields, d \in BOOLEAN}

InitField ==
    /\ \E input \in FieldInputs :
          /\ data = input.doc
          /\ annotation = [metadata |-> Metadata, fields |-> <<input.field>>]
          /\ show_debug = input.debug
    /\ InitRenderer

SpecField == InitField /\ [][Next]_vars
(***************************************************************************)
(* The render pass as a whole                                              *)
(***************************************************************************)
\* C1: a render pass never raises: no call of _render_field leaves
\* render_to_pdf with an exception, so every later field is processed.
C1_NeverRaises == raised = "none"

\* C8: the diagnostics reported at the end of a call are those of that
\* call: every call on the same annotation and data reports the same
\* errors and warnings.
C8_ScopedToOneCall == \A i, j \in DOMAIN reports : reports[i] = reports[j]

RECURSIVE InPageOrder(_, _, _)
\* The fields of pages p..last, by ascending page and, within a page, in
\* document order
InPageOrder(fields, p, last) ==
    IF p > last THEN <<>>
    ELSE SelectSeq(fields, LAMBDA f : f.page_number = p) \o InPageOrder(fields, p + 1, last)

\* The fields by ascending page number, the fields of a page in document order
FieldsInOrder(fields) ==
    IF fields = <<>> THEN <<>>
    ELSE LET numbers == {fields[i].page_number : i \in DOMAIN fields}
         IN  InPageOrder(fields, MinOf(numbers),
                         CHOOSE last \in numbers : \A p \in numbers : p <= last)

\* The calls that draw a field
IsDraw(o) == o.op \in {"drawString", "setFont", "rect"}

RECURSIVE DrawsOf(_)
\* The draw calls of the fields of a sequence, each processed once
DrawsOf(fields) ==
    IF fields = <<>> THEN <<>>
    ELSE SelectSeq(_render_field(data, Head(fields), PageSize(Head(fields).page_number),
                                 show_debug).ops, IsDraw)
         \o DrawsOf(Tail(fields))

RECURSIVE ErrorsOf(_)
ErrorsOf(fields) ==
    IF fields = <<>> THEN <<>>
    ELSE _render_field(data, Head(fields), PageSize(Head(fields).page_number),
                       show_debug).errors
         \o ErrorsOf(Tail(fields))

RECURSIVE WarningsOf(_)
WarningsOf(fields) ==
    IF fields = <<>> THEN <<>>
    ELSE _render_field(data, Head(fields), PageSize(Head(fields).page_number),
                       show_debug).warnings
         \o WarningsOf(Tail(fields))

PassEnded == pc \in {"done", "raised"}

\* C9: pages are processed in ascending order and the fields of a page in
\* document order, every field exactly once: when a pass has ended, the
\* draw calls on its canvas, and the errors and warnings of a first pass,
\* are those of all the fields taken in that order.
C9_InOrderExactlyOnce ==
    PassEnded =>
        LET ordered == FieldsInOrder(annotation.fields)
        IN  /\ SelectSeq(canvas, IsDraw) = DrawsOf(ordered)
            /\ calls = 1 => (errors = ErrorsOf(ordered) /\ warnings = WarningsOf(ordered))

(***************************************************************************)
(* One field of a render pass: the steps of RenderField                    *)
(***************************************************************************)
\* _render_field is about to be called on CurrentField
AtField == pc = "field" /\ field_idx <= Len(pages[CurrentPage])

FieldValue == ResolveField(data, CurrentField)
FieldRequired == Get(CurrentField, "required", FALSE)
FieldRules == Get(CurrentField, "validation", <<>>)
FieldChecked == validate_value(FieldValue.value, FieldRules)
FieldText == format_value(FieldValue.value, Get(CurrentField, "formatting", None))
FieldCharSpacing == Get(CurrentField, "character_spacing", 0)

\* The resolver gives no value: it returns None, or raises where a None
\* default was to be returned
ValueAbsent(field) ==
    /\ ResolveField(data, field).value = None
    /\ \/ ResolveField(data, field).exc = "none"
       \/ Get(Get(field, "value_reference", <<>>), "default_value", None) = None

\* The canvas calls issued by the step
NewOps == SubSeq(canvas', Len(canvas) + 1, Len(canvas'))

\* The messages of validate_value, each prefixed with the id of the field
Prefixed(field_id, messages) ==
    [i \in 1..Len(messages) |-> field_id \o <<":", " ">> \o messages[i]]

\* C4: a field whose resolved value is absent and which is not required is
\* skipped entirely: no canvas call, the error list and the warning list
\* unchanged, whatever its validation rules; the pass goes on to the next
\* field when the resolver returned.
C4_SkippedEntirely ==
    [][(AtField /\ ValueAbsent(CurrentField) /\ ~FieldRequired) =>
            /\ UNCHANGED <<canvas, errors, warnings>>
            /\ FieldValue.exc = "none" => (pc' = "field" /\ field_idx' = field_idx + 1)]_vars

\* A first pass has skipped its first field, an optional one with no value
\* that declares validation rules
C4_Skipped ==
    /\ calls = 1 /\ pc = "field" /\ page_idx = 1 /\ field_idx = 2
    /\ LET f == pages[CurrentPage][1]
       IN  /\ ResolveField(data, f) = Return(None)
           /\ ~Get(f, "required", FALSE)
           /\ Get(f, "validation", <<>>) # <<>>
    /\ canvas = <<SetPageSize(PageSize(CurrentPage))>>
    /\ errors = <<>> /\ warnings = <<>>

\* C5: a required field for which validation yields at least one message
\* issues no canvas call, and the error list grows by exactly those
\* messages, each prefixed with the id of the field; a single required rule
\* that fails adds exactly one error.
C5_RequiredFailureBlocks ==
    [][(/\ AtField /\ FieldRequired
        /\ FieldValue.exc = "none" /\ FieldChecked.exc = "none"
        /\ FieldChecked.value # <<>>) =>
            /\ canvas' = canvas
            /\ warnings' = warnings
            /\ errors' = errors \o Prefixed(CurrentField.field_id, FieldChecked.value)
            /\ (Len(FieldRules) = 1 /\ FieldRules[1].rule_type = tRequired)
                  => Len(errors') = Len(errors) + 1]_vars

\* A first pass has processed its first field, a required one whose value
\* resolved to the None default and failed its single required rule
C5_RequiredMissing ==
    /\ calls = 1 /\ pc = "field" /\ page_idx = 1 /\ field_idx = 2
    /\ LET f == pages[CurrentPage][1]
       IN  /\ ResolveField(data, f) = Return(None)
           /\ Get(f, "required", FALSE)
           /\ Len(Get(f, "validation", <<>>)) = 1
           /\ f.validation[1].rule_type = tRequired
           /\ errors = <<f.field_id \o <<":", " ">> \o tRequired \o sValidationFailed>>
    /\ canvas = <<SetPageSize(PageSize(CurrentPage))>>
    /\ warnings = <<>>

\* The text of the drawString calls of a sequence of canvas calls
DrawnTexts(ops) ==
    LET draws == SelectSeq(ops, LAMBDA o : o.op = "drawString")
    IN  [i \in 1..Len(draws) |-> draws[i].text]

\* The formatted text of CurrentField is issued by the step: character by
\* character when the field declares a character spacing, else in one call
\* (whole, or cut to max_length)
TextIssued ==
    IF FieldCharSpacing # 0
    THEN DrawnTexts(NewOps) = [i \in 1..Len(Without(FieldText, {"-", " "})) |->
                                  <<Without(FieldText, {"-", " "})[i]>>]
    ELSE \/ DrawnTexts(NewOps) = <<FieldText>>
         \/ DrawnTexts(NewOps) = <<Slice(FieldText, 0, Get(CurrentField, "max_length", 0))>>

\* C6: a field that is not required and fails validation is still drawn:
\* its errors are recorded and its formatted text is issued to the canvas.
C6_OptionalStillDrawn ==
    [][(/\ AtField /\ ~FieldRequired
        /\ FieldValue.exc = "none" /\ FieldValue.value # None
        /\ FieldChecked.exc = "none" /\ FieldChecked.value # <<>>) =>
            /\ errors' = errors \o Prefixed(CurrentField.field_id, FieldChecked.value)
            /\ TextIssued]_vars

\* The field reaches the layout stage: it has a value or is required, and
\* validation does not block it
ReachesLayout ==
    /\ FieldValue.exc = "none"
    /\ FieldValue.value # None \/ FieldRequired
    /\ FieldChecked.exc = "none"
    /\ FieldChecked.value = <<>> \/ ~FieldRequired

FieldPadding == Get(CurrentField, "padding", DefaultPadding)
FieldFont == FontMap(Get(Get(CurrentField, "font_style", <<>>), "font_family", sCourier))
FieldFontSize == Q(Get(Get(CurrentField, "font_style", <<>>), "font_size", 10))

\* The measured width of the formatted text is within the interior width
TextFits ==
    /\ Has(FieldPadding, "left") /\ Has(FieldPadding, "right")
    /\ QLe(stringWidth(FieldText, FieldFont, FieldFontSize),
           AvailableWidth(FieldGeometry(CurrentField, PageSize(CurrentPage)), FieldPadding))

\* C10: the overflow policy is applied only when the text is wider than the
\* interior width: a field without character spacing whose text fits is
\* drawn unmodified, at the declared font size, and records no warning.
C10_FitsUnmodified ==
    [][(AtField /\ ReachesLayout /\ FieldCharSpacing = 0 /\ TextFits) =>
            /\ DrawnTexts(NewOps) = <<FieldText>>
            /\ SelectSeq(NewOps, LAMBDA o : o.op = "setFont")
                  = <<SetFont(FieldFont, FieldFontSize)>>
            /\ warnings' = warnings]_vars
FieldOverflow == Get(CurrentField, "overflow_behavior", sTruncate)
FieldBox == FieldGeometry(CurrentField, PageSize(CurrentPage))

\* The text of CurrentField reaches line 419 and measures wider than the
\* interior width
TextOverflows ==
    /\ ReachesLayout /\ FieldCharSpacing = 0
    /\ Has(FieldPadding, "left") /\ Has(FieldPadding, "right")
    /\ QGt(stringWidth(FieldText, FieldFont, FieldFontSize),
           AvailableWidth(FieldBox, FieldPadding))

\* The font sizes the step gave to the canvas, in order
FontSizes(ops) ==
    LET fonts == SelectSeq(ops, LAMBDA o : o.op = "setFont")
    IN  [i \in 1..Len(fonts) |-> fonts[i].size]

\* C11: with overflow_behavior shrink, a text measured wider than the
\* interior width is drawn at a strictly smaller font size than the
\* declared one, and at that size it measures at most the interior width.
C11_ShrinkFits ==
    [][(AtField /\ FieldOverflow = sShrink /\ TextOverflows) =>
            /\ raised' = "none"
            /\ DrawnTexts(NewOps) = <<FieldText>>
            /\ Len(FontSizes(NewOps)) = 2
            /\ QLt(FontSizes(NewOps)[2], FieldFontSize)
            /\ QLe(stringWidth(FieldText, FieldFont, FontSizes(NewOps)[2]),
                   AvailableWidth(FieldBox, FieldPadding))]_vars
FieldMaxLength == Get(CurrentField, "max_length", 0)

\* The step hard-truncated the text: the one text drawn is the first
\* max_length characters of a longer formatted text
DrawnTruncated ==
    /\ FieldMaxLength # 0
    /\ Len(FieldText) > FieldMaxLength
    /\ DrawnTexts(NewOps) = <<Slice(FieldText, 0, FieldMaxLength)>>

\* C12: processing a field appends exactly one warning when, and only
\* when, its drawn text was hard-truncated to max_length characters; the
\* shrink, wrap and error policies append no warning and never change the
\* drawn text.
C12_WarningIffTruncated ==
    [][AtField =>
            /\ warnings' = warnings \/ Len(warnings') = Len(warnings) + 1
            /\ (warnings' # warnings) <=> (FieldCharSpacing = 0 /\ DrawnTruncated)
            /\ (FieldCharSpacing = 0 /\ FieldOverflow \in {sShrink, sWrap, sError}) =>
                  /\ warnings' = warnings
                  /\ DrawnTexts(NewOps) \in {<<>>, <<FieldText>>}]_vars

\* A first pass has drawn the first three characters of the longer text of
\* its first field, and recorded the warning
C12_Truncated ==
    /\ calls = 1 /\ pc = "field" /\ page_idx = 1 /\ field_idx = 2
    /\ LET f == pages[CurrentPage][1]
       IN  /\ Get(f, "max_length", 0) = 3
           /\ Len(format_value(ResolveField(data, f).value, Get(f, "formatting", None))) > 3
           /\ canvas[Len(canvas)].op = "drawString"
           /\ Len(canvas[Len(canvas)].text) = 3
           /\ warnings = <<f.field_id \o <<":", " ">> \o sTruncatedTo \o IntStr(3) \o sCharacters>>
\* The message the rule was given, or the generated one when it was given
\* none
ConfiguredMessage(validation) ==
    IF Has(validation, "error_message") /\ validation.error_message # DefaultErrorMessage
    THEN validation.error_message
    ELSE Get(validation, "rule_type", <<>>) \o sValidationFailed

RECURSIVE MessagesAsConfigured(_, _)
\* The messages of the failed rules, each the configured or the generated
\* message of its rule, but for the fixed message of a range rule on a value
\* that is no number
MessagesAsConfigured(value, validations) ==
    IF validations = <<>> THEN <<>>
    ELSE LET rule == Head(validations)
             errs == RuleErrors(value, rule).value
         IN  [i \in 1..Len(errs) |->
                IF Get(rule, "rule_type", <<>>) = tRange /\ FloatOf(value).exc # "none"
                THEN sMustBeNumeric
                ELSE ConfiguredMessage(rule)]
             \o MessagesAsConfigured(value, Tail(validations))

\* C13: the message of a failed rule is its configured error_message, and
\* the generated "<rule_type> validation failed" when none was configured,
\* also for a rule written by ValidationRule.to_dict; the one exception is
\* the fixed message of the range coercion.
C13_ConfiguredOrGenerated ==
    (Validated /\ ret.exc = "none") =>
        ret.value = MessagesAsConfigured(call.value, call.validations)
(***************************************************************************)
(* SpecFormat: _format_currency on every value and parameter mapping       *)
(***************************************************************************)
\* Floats are exact in binary (quarters), so that the 'f' format rounds
\* them as RoundHalfEven does
CurrencyValues ==
    {PyFloat(-123450), PyInt(1234567), PyInt(0), PyInt(-999), PyFloat(25), PyFloat(-25),
     PyFloat(99950), PyFloat(250), PyFloat(123456775), PyStr(<<"1", "2", ".", "5">>),
     PyStr(<<"a", "b", "c">>), PyStr(<<>>), None, PyList(<<>>), PyBool(TRUE)}

CurrencyParams ==
    {OptKey("decimal_places", decimal_places) @@ OptKey("show_cents", show_cents)
        @@ OptKey("currency_symbol", symbol) @@ OptKey("thousands_separator", separator)
        @@ OptKey("negative_format", negative_format) :
        decimal_places \in {<<>>, <<0>>, <<1>>, <<3>>},
        show_cents \in {<<>>, <<FALSE>>},
        symbol \in {<<>>, <<<<>>>>, <<<<"E", "U", "R", " ">>>>},
        separator \in {<<>>, <<<<".">>>>, <<<<>>>>},
        negative_format \in {<<>>, <<<<"m", "i", "n", "u", "s">>>>}}

InitFormat ==
    /\ data = PyDict(<<>>)
    /\ call \in {[fn |-> "_format_currency", value |-> v, params |-> p] :
                    v \in CurrencyValues, p \in CurrencyParams}
    /\ ret = NoRet
    /\ RenderAtRest

Format ==
    /\ call.fn = "_format_currency"
    /\ ret = NoRet
    /\ ret' = Return(_format_currency(call.value, call.params))
    /\ UNCHANGED <<data, call>>
    /\ UNCHANGED renderVars

NextFormat == Format

SpecFormat == InitFormat /\ [][NextFormat]_vars

Formatted == call.fn = "_format_currency" /\ ret # NoRet

\* The digits of c hundredths with the configured decimal places and the
\* configured separator between the groups
DigitsAsConfigured(c, params) ==
    IF Get(params, "show_cents", TRUE)
    THEN FixedPoint(c, Get(params, "decimal_places", 2),
                    Get(params, "thousands_separator", <<",">>))
    ELSE GroupDigits(NatStr(c \div 100), Get(params, "thousands_separator", <<",">>))

\* C14: the currency format of a number is its absolute value with the
\* configured decimal places and thousands separator, the currency symbol
\* before it, in parentheses or after a minus when the number is negative;
\* a value that is no number gives "0.00", and no call raises.
C14_CurrencyAsConfigured ==
    Formatted =>
        LET num == FloatOf(call.value)
        IN  ret = Return(
                IF num.exc # "none" THEN sZeroAmount
                ELSE LET amount == Get(call.params, "currency_symbol", <<"$">>)
                                   \o DigitsAsConfigured(Abs(num.c), call.params)
                     IN  IF num.c >= 0 THEN amount
                         ELSE IF Get(call.params, "negative_format", sParentheses)
                                 = sParentheses
                         THEN <<"(">> \o amount \o <<")">>
                         ELSE <<"-">> \o amount)
\* The drawString calls of a sequence of canvas calls
DrawStrings(ops) == SelectSeq(ops, LAMBDA o : o.op = "drawString")

====
